---- MODULE Spec2Model ----
(***************************************************************************)
(* A model of src/default.rs: DefaultConfigurationRoot (an ordered list of *)
(* providers in an Rc<RefCell<Vec<..>>> together with the current          *)
(* composite change token), its clones and sections, the ProviderIter      *)
(* double-ended iterator and the reload protocol.                          *)
(*                                                                         *)
(* Strings are sequences of one-character strings, so that path            *)
(* combination, segment extraction and letter case are computed.           *)
(* Providers, change tokens and ConfigurationPath live outside             *)
(* src/default.rs; they are modelled from the specification.               *)
(***************************************************************************)
EXTENDS Integers, Sequences, FiniteSets, TLC

VARIABLES
    providers,  \* the shared Vec of providers: Seq of [data, loads]
    refs,       \* the RefCell's count of outstanding shared borrows (Ref)
    handles,    \* root handles, clones and sections: each owns an Rc clone and a token
    tokens,     \* every composite token ever created: Seq of [fired, children, cbs]
    iters,      \* live ProviderIter objects
    items,      \* number of live Item objects yielded by iterators
    last,       \* the last call made and what it returned
    panicked,   \* a call panicked (the program is unwinding)
    exclusive   \* the RefCell is mutably borrowed (a RefMut is alive)

vars == <<providers, refs, handles, tokens, iters, items, last, panicked, exclusive>>

----------------------------------------------------------------------------
(* Bounds of the model *)

MaxProviders == 2   \* providers registered with the root
MaxReloads == 2     \* reloads that obtain exclusive access
MaxHandles == 2     \* live root handles, clones and sections
MaxIters == 1       \* live ProviderIter objects
MaxItems == 1       \* live Item objects
MaxCallbacks == 1   \* callbacks registered on one token

----------------------------------------------------------------------------
(* Strings, paths and values *)

Sep == ":"

None == "none"
DefaultValue == ""

Lower(c) == IF c = "X" THEN "x" ELSE IF c = "Y" THEN "y" ELSE c

LowerStr(s) == [i \in 1..Len(s) |-> Lower(s[i])]

Combine(a, b) ==
    IF a = <<>> THEN b
    ELSE IF b = <<>> THEN a
    ELSE a \o <<Sep>> \o b

RECURSIVE TakeSeg(_)
TakeSeg(s) ==
    IF s = <<>> \/ Head(s) = Sep THEN <<>>
    ELSE <<Head(s)>> \o TakeSeg(Tail(s))

RECURSIVE SectionKey(_)
SectionKey(path) ==
    IF \E i \in 1..Len(path) : path[i] = Sep
    THEN SectionKey(Tail(path))
    ELSE path

----------------------------------------------------------------------------
(* Providers (external collaborators): a provider holds an ordered list of *)
(* (key, value) entries and counts its load() calls; its reload token is   *)
(* replaced by every load().                                               *)

Px == <<"x">>
PX == <<"X">>
Py == <<"y">>
Pxy == <<"x", ":", "y">>
PXy == <<"X", ":", "y">>

D0 == <<>>
D1 == << [k |-> Px, v |-> "v1"], [k |-> Pxy, v |-> "v1"] >>
D2 == << [k |-> PX, v |-> "v2"], [k |-> PXy, v |-> "v2"] >>
D3 == << [k |-> Py, v |-> "v2"], [k |-> Pxy, v |-> "v2"] >>

\* D0 is a provider that has not loaded yet
DataSets == {D1, D2, D3}

\* what one load() call meets: a failure, or the data it reads
Fail == [ok |-> FALSE, data |-> D0]
Outcomes == {[ok |-> TRUE, data |-> d] : d \in DataSets} \cup {Fail}

ProviderGet(p, key) ==
    LET hits == {i \in 1..Len(p.data) : LowerStr(p.data[i].k) = LowerStr(key)}
    IN IF hits = {} THEN None
       ELSE p.data[CHOOSE i \in hits : \A j \in hits : i <= j].v

Under(parent, k) ==
    IF parent = <<>> THEN k # <<>>
    ELSE /\ Len(k) > Len(parent) + 1
         /\ LowerStr(SubSeq(k, 1, Len(parent))) = LowerStr(parent)
         /\ k[Len(parent) + 1] = Sep

ChildSeg(parent, k) ==
    IF parent = <<>> THEN TakeSeg(k)
    ELSE TakeSeg(SubSeq(k, Len(parent) + 2, Len(k)))

RECURSIVE AppendChildKeys(_, _, _)
AppendChildKeys(data, earlier_keys, parent) ==
    IF data = <<>> THEN earlier_keys
    ELSE AppendChildKeys(Tail(data),
                         IF Under(parent, Head(data).k)
                         THEN Append(earlier_keys, ChildSeg(parent, Head(data).k))
                         ELSE earlier_keys,
                         parent)

ProviderChildKeys(p, earlier_keys, parent) ==
    AppendChildKeys(p.data, earlier_keys, parent)

ProviderLoad(p, outcome) ==
    IF outcome.ok
    THEN [p EXCEPT !.loads = @ + 1, !.data = outcome.data]
    ELSE [p EXCEPT !.loads = @ + 1]

ProviderName(i) == i

ProviderToken(i, p) == <<i, p.loads>>

----------------------------------------------------------------------------
(* ProviderIter: a Ref on the provider list with 0-based cursors *)

NoItem == 0 - 1

\* what `last` holds after a call whose result no property reads
Done == [op |-> "done"]

NoIter == [alive |-> FALSE, head |-> 0, tail |-> 0]

NewIter(len) == [alive |-> TRUE, head |-> 0, tail |-> len]

IterNext(it, len) ==
    IF it.head < len
    THEN [it |-> [it EXCEPT !.head = @ + 1], item |-> it.head]
    ELSE [it |-> it, item |-> NoItem]

IterNextBack(it) ==
    IF it.tail > 0
    THEN [it |-> [it EXCEPT !.tail = @ - 1], item |-> it.tail - 1]
    ELSE [it |-> it, item |-> NoItem]

IterLen(it, len) == len

----------------------------------------------------------------------------
(* The RefCell guarding the provider list *)

BorrowOk(writing) == ~writing

TryBorrowMutIgnoringReaders(readers, writing) == ~writing

TryBorrowMut(readers, writing) == readers = 0 /\ ~writing

ForgetRefMut(w) == w

\* the RefMut taken by reload() goes out of scope when reload() returns
DropRefMut(w) == FALSE

----------------------------------------------------------------------------
(* Reads of a root over the provider list *)

RECURSIVE GetRev(_, _, _)
GetRev(provs, it, key) ==
    LET r == IterNextBack(it)
    IN IF r.item = NoItem THEN None
       ELSE LET value == ProviderGet(provs[r.item + 1], key)
            IN IF value # None THEN value ELSE GetRev(provs, r.it, key)

RECURSIVE GetFwd(_, _, _)
GetFwd(provs, it, key) ==
    LET r == IterNext(it, Len(provs))
    IN IF r.item = NoItem THEN None
       ELSE LET value == ProviderGet(provs[r.item + 1], key)
            IN IF value # None THEN value ELSE GetFwd(provs, r.it, key)

RootGetForward(provs, key) == GetFwd(provs, NewIter(Len(provs)), key)

RootGet(provs, key) == GetRev(provs, NewIter(Len(provs)), key)

RECURSIVE FoldChildKeys(_, _, _, _)
FoldChildKeys(provs, it, earlier_keys, parent) ==
    LET r == IterNext(it, Len(provs))
    IN IF r.item = NoItem THEN earlier_keys
       ELSE FoldChildKeys(provs, r.it,
                          ProviderChildKeys(provs[r.item + 1], earlier_keys, parent),
                          parent)

Range(seq) == {seq[i] : i \in 1..Len(seq)}

Perms(S) == {f \in [1..Cardinality(S) -> S] : \A i, j \in DOMAIN f : f[i] = f[j] => i = j}

CollectVec(seq) == {seq}

\* collect::<HashSet<_>>().iter(): the distinct strings, in any order
CollectHashSet(seq) == Perms(Range(seq))

ChildKeys(provs, parent) ==
    CollectHashSet(FoldChildKeys(provs, NewIter(Len(provs)), <<>>, parent))

----------------------------------------------------------------------------------------------------------------------------------------
(* Change tokens (external crate): a composite token is active until it is *)
(* fired; firing runs every registered callback once and leaves the token  *)
(* inert.  cbs holds, per registered callback, how often it has run.  A    *)
(* callback may call back into a handle of the root while it runs: acts[i] *)
(* is the call callback i makes, CallResult what that call meets.          *)

CbActs == {"get", "section", "children", "reload"}

NewToken(children) == [fired |-> FALSE, children |-> children, cbs |-> <<>>]

CallResult(act, readers, writing) ==
    CASE act \in {"get", "children"} ->
            IF BorrowOk(writing) THEN "ok" ELSE "panic"
      [] act = "reload" ->
            IF TryBorrowMut(readers, writing) THEN "ok" ELSE "borrowed"
      [] OTHER -> "ok"

FirstPanic(n, acts, readers, writing) ==
    LET bad == {i \in 1..n : CallResult(acts[i], readers, writing) = "panic"}
    IN IF bad = {} THEN n + 1
       ELSE CHOOSE i \in bad : \A j \in bad : i <= j

NotifyEveryTime(t, acts, readers, writing) ==
    LET n == Len(t.cbs)
        act(i) == IF i \in DOMAIN acts THEN acts[i] ELSE "section"
    IN [tok |-> [t EXCEPT !.fired = TRUE,
                          !.cbs = [i \in 1..n |-> t.cbs[i] + 1]],
        panic |-> FALSE,
        log |-> [i \in 1..n |->
                   [act |-> act(i), res |-> CallResult(act(i), readers, writing)]]]

Notify(t, acts, readers, writing) ==
    IF t.fired
    THEN [tok |-> t, panic |-> FALSE, log |-> <<>>]
    ELSE LET n == Len(t.cbs)
             stop == FirstPanic(n, acts, readers, writing)
             ran == IF stop > n THEN n ELSE stop
         IN [tok |-> [t EXCEPT !.fired = TRUE,
                               !.cbs = [i \in 1..n |->
                                          IF i <= ran THEN t.cbs[i] + 1 ELSE t.cbs[i]]],
             panic |-> stop <= n,
             log |-> [i \in 1..ran |->
                        [act |-> acts[i],
                         res |-> CallResult(acts[i], readers, writing)]]]

----------------
(* Handles: the root, its clones and sections.  Each owns one strong       *)
(* reference to the provider list and its own copy of the token field.     *)

Handles == 1..MaxHandles

NoHandle == [kind |-> "free", tok |-> 0, path |-> <<>>, from |-> 0]

Alive(hs) == {h \in DOMAIN hs : hs[h].kind # "free"}

StrongCount(hs) == Cardinality(Alive(hs))

WeakCount == 0

FreeHandle(hs) == CHOOSE h \in DOMAIN hs : hs[h].kind = "free" /\ \A g \in DOMAIN hs : hs[g].kind = "free" => h <= g

SubKeyIgnoringPath(hd, key) == key

SubKey(hd, key) == Combine(hd.path, key)

SectionPath(hd, key) == IF hd.kind = "section" THEN SubKey(hd, key) ELSE key

RootOf(hs, h) == IF hs[h].kind = "section" THEN hs[h].from ELSE h

----------------------------------------------------------------------------
(* The load pass shared by new() and reload(): load() on every provider in *)
(* order, an error pair for each failure, one token per provider.          *)

RECURSIVE LoadFrom(_, _, _)
LoadFrom(acc, outcomes, i) ==
    IF i > Len(acc.provs) THEN acc
    ELSE LET provider == ProviderLoad(acc.provs[i], outcomes[i])
         IN LoadFrom([provs |-> [acc.provs EXCEPT ![i] = provider],
                      errors |-> IF outcomes[i].ok
                                 THEN acc.errors
                                 ELSE Append(acc.errors, <<ProviderName(i), "error">>),
                      tokens |-> Append(acc.tokens, ProviderToken(i, provider)),
                      order |-> Append(acc.order, i)],
                     outcomes, i + 1)

RECURSIVE LoadFromFailFast(_, _, _)
LoadFromFailFast(acc, outcomes, i) ==
    IF i > Len(acc.provs) \/ acc.errors # <<>> THEN acc
    ELSE LET provider == ProviderLoad(acc.provs[i], outcomes[i])
         IN LoadFromFailFast([provs |-> [acc.provs EXCEPT ![i] = provider],
                              errors |-> IF outcomes[i].ok
                                         THEN acc.errors
                                         ELSE Append(acc.errors, <<ProviderName(i), "error">>),
                              tokens |-> Append(acc.tokens, ProviderToken(i, provider)),
                              order |-> Append(acc.order, i)],
                             outcomes, i + 1)

LoadAllFailFast(provs, outcomes) ==
    LoadFromFailFast([provs |-> provs, errors |-> <<>>, tokens |-> <<>>, order |-> <<>>],
                     outcomes, 1)

RECURSIVE LoadFromTokenOnOk(_, _, _)
LoadFromTokenOnOk(acc, outcomes, i) ==
    IF i > Len(acc.provs) THEN acc
    ELSE LET provider == ProviderLoad(acc.provs[i], outcomes[i])
         IN LoadFromTokenOnOk(
                [provs |-> [acc.provs EXCEPT ![i] = provider],
                 errors |-> IF outcomes[i].ok
                            THEN acc.errors
                            ELSE Append(acc.errors, <<ProviderName(i), "error">>),
                 tokens |-> IF outcomes[i].ok
                            THEN Append(acc.tokens, ProviderToken(i, provider))
                            ELSE acc.tokens,
                 order |-> Append(acc.order, i)],
                outcomes, i + 1)

LoadAllTokenOnOk(provs, outcomes) ==
    LoadFromTokenOnOk([provs |-> provs, errors |-> <<>>, tokens |-> <<>>, order |-> <<>>],
                      outcomes, 1)

LoadAll(provs, outcomes) ==
    LoadFrom([provs |-> provs, errors |-> <<>>, tokens |-> <<>>, order |-> <<>>],
             outcomes, 1)

----------------------------------------------------------------------------
(* DefaultConfigurationRoot::new and ConfigurationRoot::reload *)

PublishNoNotify(hs, toks, h, acc, acts) ==
    [handles |-> [hs EXCEPT ![h].tok = Len(toks) + 1],
     tokens |-> Append(toks, NewToken(acc.tokens)),
     panic |-> FALSE,
     log |-> <<>>,
     res |-> IF acc.errors = <<>> THEN "ok" ELSE "provider"]

PublishUnlessErrors(hs, toks, h, acc, acts) ==
    IF acc.errors = <<>>
    THEN LET fired == Notify(toks[hs[h].tok], acts, 0, TRUE)
         IN [handles |-> [hs EXCEPT ![h].tok = Len(toks) + 1],
             tokens |-> Append([toks EXCEPT ![hs[h].tok] = fired.tok],
                               NewToken(acc.tokens)),
             panic |-> fired.panic,
             log |-> fired.log,
             res |-> IF fired.panic THEN "panic" ELSE "ok"]
    ELSE [handles |-> hs, tokens |-> toks, panic |-> FALSE, log |-> <<>>,
          res |-> "provider"]

PublishAfterRelease(hs, toks, h, acc, acts) ==
    LET fired == Notify(toks[hs[h].tok], acts, 0, FALSE)
    IN [handles |-> [hs EXCEPT ![h].tok = Len(toks) + 1],
        tokens |-> Append([toks EXCEPT ![hs[h].tok] = fired.tok], NewToken(acc.tokens)),
        panic |-> fired.panic,
        log |-> fired.log,
        res |-> IF fired.panic THEN "panic"
                ELSE IF acc.errors = <<>> THEN "ok" ELSE "provider"]

Publish(hs, toks, h, acc, acts) ==
    LET new_token == NewToken(acc.tokens)
        old == hs[h].tok
        \* old_token.notify() runs while the RefMut taken by reload() is alive
        fired == Notify(toks[old], acts, 0, TRUE)
    IN [handles |-> [hs EXCEPT ![h].tok = Len(toks) + 1],
        tokens |-> Append([toks EXCEPT ![old] = fired.tok], new_token),
        panic |-> fired.panic,
        log |-> fired.log,
        res |-> IF fired.panic THEN "panic"
                ELSE IF acc.errors = <<>> THEN "ok" ELSE "provider"]

Init ==
    /\ providers = [i \in 1..MaxProviders |-> [data |-> D0, loads |-> 0]]
    /\ refs = 0
    /\ handles = [h \in Handles |-> NoHandle]
    /\ tokens = <<>>
    /\ iters = [i \in 1..MaxIters |-> NoIter]
    /\ items = 0
    /\ last = [op |-> "init"]
    /\ panicked = FALSE
    /\ exclusive = FALSE

NewDespiteErrors(outcomes) ==
    /\ last.op = "init"
    /\ LET acc == LoadAll(providers, outcomes)
       IN /\ providers' = acc.provs
          /\ tokens' = <<NewToken(acc.tokens)>>
          /\ handles' = [handles EXCEPT ![1] =
                            [kind |-> "root", tok |-> 1, path |-> <<>>, from |-> 0]]
          /\ last' = [op |-> "new",
                      res |-> IF acc.errors = <<>> THEN "ok" ELSE "provider",
                      errors |-> acc.errors, order |-> acc.order,
                      outcomes |-> outcomes]
    /\ UNCHANGED <<refs, iters, items, panicked, exclusive>>

New(outcomes) ==
    /\ last.op = "init"
    /\ LET acc == LoadAll(providers, outcomes)
       IN /\ providers' = acc.provs
          /\ IF acc.errors = <<>>
             THEN /\ tokens' = <<NewToken(acc.tokens)>>
                  /\ handles' = [handles EXCEPT ![1] =
                                    [kind |-> "root", tok |-> 1, path |-> <<>>, from |-> 0]]
             ELSE UNCHANGED <<tokens, handles>>
          /\ last' = [op |-> "new",
                      res |-> IF acc.errors = <<>> THEN "ok" ELSE "provider",
                      errors |-> acc.errors, order |-> acc.order,
                      outcomes |-> outcomes]
    /\ UNCHANGED <<refs, iters, items, panicked, exclusive>>

Reload(h, outcomes, acts) ==
    /\ ~panicked
    /\ handles[h].kind = "root"
    /\ Len(tokens) <= MaxReloads \/ ~TryBorrowMut(refs, exclusive)
    /\ LET borrowed == (StrongCount(handles) - 1) + WeakCount
       IN IF TryBorrowMut(refs, exclusive)
          THEN LET acc == LoadAll(providers, outcomes)
                   pub == Publish(handles, tokens, h, acc, acts)
               IN /\ providers' = acc.provs
                  /\ handles' = pub.handles
                  /\ tokens' = pub.tokens
                  /\ panicked' = pub.panic
                  /\ exclusive' = DropRefMut(TRUE)
                  /\ last' = [op |-> "reload", h |-> h, old |-> handles[h].tok,
                              res |-> pub.res, n |-> 0, errors |-> acc.errors,
                              order |-> acc.order, outcomes |-> outcomes,
                              log |-> pub.log]
          ELSE /\ last' = [op |-> "reload", h |-> h, old |-> handles[h].tok,
                           res |-> "borrowed", n |-> borrowed, errors |-> <<>>,
                           order |-> <<>>, outcomes |-> <<>>, log |-> <<>>]
               /\ UNCHANGED <<providers, handles, tokens, panicked, exclusive>>
    /\ UNCHANGED <<refs, iters, items>>

----------------------------------------------------------------------------
(* providers() and the iterator it returns *)

Providers(h, i) ==
    /\ ~panicked
    /\ handles[h].kind = "root"
    /\ ~iters[i].alive
    /\ BorrowOk(exclusive)
    /\ iters' = [iters EXCEPT ![i] = NewIter(Len(providers))]
    /\ refs' = refs + 1
    /\ last' = Done
    /\ UNCHANGED <<providers, handles, tokens, items, panicked, exclusive>>

YieldWithoutRef(i, r, keep, op) ==
    /\ iters' = [iters EXCEPT ![i] = r.it]
    /\ IF r.item # NoItem /\ keep
       THEN items' = items + 1 /\ refs' = refs
       ELSE UNCHANGED <<items, refs>>
    /\ last' = [op |-> op, it |-> i, item |-> r.item]
    /\ UNCHANGED <<providers, handles, tokens, panicked, exclusive>>

Yield(i, r, keep, op) ==
    /\ iters' = [iters EXCEPT ![i] = r.it]
    /\ IF r.item # NoItem /\ keep
       THEN items' = items + 1 /\ refs' = refs + 1
       ELSE UNCHANGED <<items, refs>>
    /\ last' = [op |-> op, it |-> i, item |-> r.item]
    /\ UNCHANGED <<providers, handles, tokens, panicked, exclusive>>

NextItem(i, keep) ==
    /\ ~panicked
    /\ iters[i].alive
    /\ keep => items < MaxItems
    /\ Yield(i, IterNext(iters[i], Len(providers)), keep, "next")

NextBackItem(i, keep) ==
    /\ ~panicked
    /\ iters[i].alive
    /\ keep => items < MaxItems
    /\ Yield(i, IterNextBack(iters[i]), keep, "next_back")

\* ProviderIter::len(), called on a live iterator
ExactLen(i) ==
    /\ ~panicked
    /\ iters[i].alive
    /\ last' = [op |-> "len", it |-> i,
                val |-> IterLen(iters[i], Len(providers))]
    /\ UNCHANGED <<providers, refs, handles, tokens, iters, items, panicked, exclusive>>

DropIter(i) ==
    /\ ~panicked
    /\ iters[i].alive
    /\ iters' = [iters EXCEPT ![i] = NoIter]
    /\ refs' = refs - 1
    /\ last' = Done
    /\ UNCHANGED <<providers, handles, tokens, items, panicked, exclusive>>

DropItem ==
    /\ ~panicked
    /\ items > 0
    /\ items' = items - 1
    /\ refs' = refs - 1
    /\ last' = Done
    /\ UNCHANGED <<providers, handles, tokens, iters, panicked, exclusive>>

----------------------------------------------------------------------------
(* Clones, sections and callbacks *)

MaxPathLen == 3

SectionKeys == {Px, Py}

CloneRoot(h) ==
    /\ ~panicked
    /\ handles[h].kind = "root"
    /\ \E g \in Handles : handles[g].kind = "free"
    /\ handles' = [handles EXCEPT ![FreeHandle(handles)] =
                      [kind |-> "root", tok |-> handles[h].tok, path |-> <<>>, from |-> 0]]
    /\ last' = Done
    /\ UNCHANGED <<providers, refs, tokens, iters, items, panicked, exclusive>>

Section(h, key) ==
    /\ ~panicked
    /\ handles[h].kind # "free"
    /\ \E g \in Handles : handles[g].kind = "free"
    /\ Len(SectionPath(handles[h], key)) <= MaxPathLen
    /\ handles' = [handles EXCEPT ![FreeHandle(handles)] =
                      [kind |-> "section", tok |-> handles[h].tok,
                       path |-> SectionPath(handles[h], key),
                       from |-> RootOf(handles, h)]]
    /\ last' = Done
    /\ UNCHANGED <<providers, refs, tokens, iters, items, panicked, exclusive>>

DropHandle(h) ==
    /\ ~panicked
    /\ h # 1
    /\ handles[h].kind # "free"
    /\ \A g \in Handles : handles[g].kind = "section" => handles[g].from # h
    /\ handles' = [handles EXCEPT ![h] = NoHandle]
    /\ last' = Done
    /\ UNCHANGED <<providers, refs, tokens, iters, items, panicked, exclusive>>

Register(h) ==
    /\ ~panicked
    /\ handles[h].kind # "free"
    /\ ~tokens[handles[h].tok].fired
    /\ Len(tokens[handles[h].tok].cbs) < MaxCallbacks
    /\ tokens' = [tokens EXCEPT ![handles[h].tok].cbs =
                     Append(@, 0)]
    /\ last' = Done
    /\ UNCHANGED <<providers, refs, handles, iters, items, panicked, exclusive>>

----------------------------------------------------------------------------
(* Reads through a handle.  A read given a section key k1 goes through the *)
(* temporary section handle.section(k1), dropped when the call returns;    *)
(* k1 = NoSection reads the handle itself.                                 *)

QueryKeys == {<<>>, Px, PX, Py, Pxy}

NoSection == <<"-">>

NewSection(hs, h, key) ==
    [kind |-> "section", tok |-> hs[h].tok,
     path |-> SectionPath(hs[h], key), from |-> RootOf(hs, h)]

View(hs, h, k1) == IF k1 = NoSection THEN hs[h] ELSE NewSection(hs, h, k1)

HandleGet(provs, hd, key) ==
    RootGet(provs, IF hd.kind = "section" THEN SubKey(hd, key) ELSE key)

HandleValue(provs, hd) ==
    LET value == RootGet(provs, hd.path)
    IN IF value = None THEN DefaultValue ELSE value

HandleChildren(provs, hd) ==
    {[i \in DOMAIN keys |-> SectionPath(hd, keys[i])] :
        keys \in ChildKeys(provs, hd.path)}

Get(h, k1, key) ==
    /\ ~panicked
    /\ handles[h].kind # "free"
    /\ BorrowOk(exclusive)
    /\ last' = [op |-> "get", h |-> h, sec |-> k1, key |-> key,
                val |-> HandleGet(providers, View(handles, h, k1), key)]
    /\ UNCHANGED <<providers, refs, handles, tokens, iters, items, panicked, exclusive>>

Value(h, k1) ==
    /\ ~panicked
    /\ handles[h].kind # "free"
    /\ k1 # NoSection
    /\ BorrowOk(exclusive)
    /\ last' = [op |-> "value", h |-> h, sec |-> k1,
                val |-> HandleValue(providers, View(handles, h, k1))]
    /\ UNCHANGED <<providers, refs, handles, tokens, iters, items, panicked, exclusive>>

\* handle.section(k1).section(k2).path(), both sections temporary
Path(h, k1, k2) ==
    /\ ~panicked
    /\ handles[h].kind # "free"
    /\ last' = [op |-> "path", h |-> h, sec |-> k1, key |-> k2,
                val |-> SectionPath(NewSection(handles, h, k1), k2)]
    /\ UNCHANGED <<providers, refs, handles, tokens, iters, items, panicked, exclusive>>

Children(h, k1) ==
    /\ ~panicked
    /\ handles[h].kind # "free"
    /\ BorrowOk(exclusive)
    /\ \E secs \in HandleChildren(providers, View(handles, h, k1)) :
          last' = [op |-> "children", h |-> h, sec |-> k1, secs |-> secs]
    /\ UNCHANGED <<providers, refs, handles, tokens, iters, items, panicked, exclusive>>

----------------------------------------------------------------------------
(* Specifications.  Spec is the reload protocol over handles, tokens and   *)
(* callbacks; SpecBorrow adds the iterators that borrow the provider list; *)
(* SpecRead is the reads over every combination of provider data.          *)

\* the calls made by the callbacks that a reload() through handle h runs
Acts(h) ==
    IF handles[h].kind = "root" /\ ~tokens[handles[h].tok].fired
    THEN [1..Len(tokens[handles[h].tok].cbs) -> CbActs]
    ELSE {<<>>}

NoActs == <<>>

AllOutcomes == [1..MaxProviders -> Outcomes]

LoadOutcomes == [1..MaxProviders -> {[ok |-> TRUE, data |-> D1], Fail}]

OkOutcomes == [1..MaxProviders -> {[ok |-> TRUE, data |-> D1]}]

Next ==
    \/ \E outcomes \in LoadOutcomes : New(outcomes)
    \/ \E h \in Handles, outcomes \in LoadOutcomes :
          \E acts \in Acts(h) : Reload(h, outcomes, acts)
    \/ \E h \in Handles : CloneRoot(h)
    \/ \E h \in Handles : Section(h, Px)
    \/ \E h \in Handles : Register(h)

Spec == Init /\ [][Next]_vars

NextBorrow ==
    \/ \E outcomes \in OkOutcomes : New(outcomes)
    \/ \E h \in Handles, outcomes \in OkOutcomes : Reload(h, outcomes, NoActs)
    \/ Get(1, NoSection, Px)
    \/ \E h \in Handles, i \in 1..MaxIters : Providers(h, i)
    \/ \E i \in 1..MaxIters, keep \in BOOLEAN : NextItem(i, keep)
    \/ \E i \in 1..MaxIters : DropIter(i)
    \/ DropItem
    \/ \E h \in Handles : CloneRoot(h)
    \/ \E h \in Handles : Section(h, Px)
    \/ \E h \in Handles : DropHandle(h)

SpecBorrow == Init /\ [][NextBorrow]_vars

NextRead ==
    \/ \E outcomes \in AllOutcomes : New(outcomes)
    \/ \E outcomes \in AllOutcomes : Reload(1, outcomes, NoActs)
    \/ \E k1 \in QueryKeys \cup {NoSection}, key \in QueryKeys : Get(1, k1, key)
    \/ \E k1 \in QueryKeys : Value(1, k1)
    \/ \E k1 \in QueryKeys, k2 \in QueryKeys : Path(1, k1, k2)
    \/ \E k1 \in QueryKeys \cup {NoSection} : Children(1, k1)

SpecRead == Init /\ [][NextRead]_vars

\* SpecIter is one root, its reloads and reads, and the iterators over its
\* provider list, driven from both ends.
NextIter ==
    \/ \E outcomes \in LoadOutcomes : New(outcomes)
    \/ \E outcomes \in LoadOutcomes : Reload(1, outcomes, NoActs)
    \/ Get(1, NoSection, Px)
    \/ Children(1, NoSection)
    \/ \E i \in 1..MaxIters : Providers(1, i)
    \/ \E i \in 1..MaxIters, keep \in BOOLEAN : NextItem(i, keep)
    \/ \E i \in 1..MaxIters, keep \in BOOLEAN : NextBackItem(i, keep)
    \/ \E i \in 1..MaxIters : ExactLen(i)
    \/ \E i \in 1..MaxIters : DropIter(i)
    \/ DropItem

SpecIter == Init /\ [][NextIter]_vars

----------------------------------------------------------------------------
(* Properties *)

Constructed == handles[1].kind = "root"

ReloadRan == last.op = "reload" /\ last.res # "borrowed"

Definers(key) == {i \in 1..Len(providers) : ProviderGet(providers[i], key) # None}

LastDefiner(key) == CHOOSE i \in Definers(key) : \A j \in Definers(key) : j <= i

Expected(key) ==
    IF Definers(key) = {} THEN None ELSE ProviderGet(providers[LastDefiner(key)], key)

\* C1: for every provider list and key, root.get(key) is the value of the
\* last-registered provider that defines the key, and None when no provider
\* defines it; whenever the data of the providers changes (a later provider
\* stops defining the key), get answers from the last provider that still
\* defines it.
C1_GetLastDefinerWins ==
    /\ \A key \in QueryKeys : RootGet(providers, key) = Expected(key)
    /\ (last.op = "get" /\ last.sec = NoSection) => last.val = Expected(last.key)

\* a get() answered by the later of two providers that define the key differently
C1_Witness ==
    /\ last.op = "get" /\ last.sec = NoSection
    /\ \E i, j \in Definers(last.key) :
          /\ i < j
          /\ ProviderGet(providers[i], last.key) # ProviderGet(providers[j], last.key)
          /\ last.val = ProviderGet(providers[j], last.key)
    /\ \E key \in QueryKeys : Definers(key) = {1}

\* C2: after every reload() that obtains exclusive access and returns, each
\* callback registered on the token T0 the handle held before the call has
\* run exactly once, T0 reports changed, and the handle's token is another
\* token than T0, which has not fired.
C2_ReloadFiresOldTokenOnce ==
    (last.op = "reload" /\ last.res \in {"ok", "provider"}) =>
        /\ tokens[last.old].fired
        /\ \A i \in 1..Len(tokens[last.old].cbs) : tokens[last.old].cbs[i] = 1
        /\ handles[last.h].tok # last.old
        /\ ~tokens[handles[last.h].tok].fired

\* a reload() returned Ok(()) after running a callback registered on T0
C2_Witness ==
    /\ last.op = "reload" /\ last.res = "ok"
    /\ Len(tokens[last.old].cbs) >= 1
    /\ Len(last.log) >= 1

\* C3: a reload() called while a providers() iterator is alive returns
\* Borrowed, calls load() on no provider and leaves every token and every
\* handle's token field as it was; a reload() called when no iterator and no
\* item is alive does not return Borrowed.
C3_BorrowConflictLeavesStateAlone ==
    [][last'.op = "reload" =>
        /\ (\E i \in 1..MaxIters : iters[i].alive) =>
              /\ last'.res = "borrowed"
              /\ providers' = providers
              /\ tokens' = tokens
              /\ handles' = handles
        /\ refs = 0 => last'.res # "borrowed"]_vars

\* a reload() returned Borrowed while an iterator was alive
C3_Witness ==
    /\ last.op = "reload" /\ last.res = "borrowed"
    /\ \E i \in 1..MaxIters : iters[i].alive

FailingProviders(outcomes) ==
    SelectSeq([i \in 1..Len(outcomes) |-> i], LAMBDA i : ~outcomes[i].ok)

\* C4: a reload() that obtains exclusive access calls load() once on every
\* provider in registration order whatever the earlier loads returned (so
\* every provider has been loaded once per pass); it returns Ok(()) iff no
\* load() failed and otherwise Provider with one (name, error) pair per
\* failing provider in registration order; every provider whose load()
\* succeeded holds the data it loaded, and get() answers from it.
C4_ReloadLoadsAllCollectsErrors ==
    /\ Constructed => \A i \in 1..Len(providers) : providers[i].loads = Len(tokens)
    /\ ReloadRan =>
        /\ last.order = [i \in 1..Len(providers) |-> i]
        /\ last.res = (IF \A i \in 1..Len(providers) : last.outcomes[i].ok
                       THEN "ok" ELSE "provider")
        /\ last.errors = [j \in 1..Len(FailingProviders(last.outcomes)) |->
                            <<ProviderName(FailingProviders(last.outcomes)[j]), "error">>]
        /\ \A i \in 1..Len(providers) :
              last.outcomes[i].ok =>
                /\ providers[i].data = last.outcomes[i].data
                /\ \A key \in QueryKeys :
                      (\A j \in Definers(key) : j <= i) /\ i \in Definers(key) =>
                          RootGet(providers, key) =
                              ProviderGet([data |-> last.outcomes[i].data, loads |-> 0], key)

\* a reload() whose first load() failed and whose last load() read new data
C4_Witness ==
    /\ ReloadRan /\ last.res = "provider"
    /\ ~last.outcomes[1].ok
    /\ last.outcomes[Len(providers)].ok
    /\ last.order = [i \in 1..Len(providers) |-> i]
    /\ providers[Len(providers)].data = last.outcomes[Len(providers)].data

\* C5: the token of every section is the current token of the root handle
\* the section was derived from.
C5_SectionTokenIsRootToken ==
    \A h \in Handles :
        handles[h].kind = "section" => handles[h].tok = handles[handles[h].from].tok

\* C6: when a reload() returns Provider (some load() failed), the callbacks
\* registered on the previous token have each run exactly once, that token
\* has fired, and the handle holds the token created by this reload().
C6_FailedLoadsStillFire ==
    (last.op = "reload" /\ last.res = "provider") =>
        /\ last.errors # <<>>
        /\ tokens[last.old].fired
        /\ \A i \in 1..Len(tokens[last.old].cbs) : tokens[last.old].cbs[i] = 1
        /\ handles[last.h].tok = Len(tokens)
        /\ handles[last.h].tok # last.old

\* a reload() returned Provider after running a callback of the old token
C6_Witness ==
    /\ last.op = "reload" /\ last.res = "provider"
    /\ Len(last.log) >= 1
    /\ tokens[last.old].cbs[1] = 1

\* C7: get, section and children never fail, also when a callback that
\* reload() is running calls them.
C7_ReadsNeverFail ==
    /\ ~panicked
    /\ last.op = "reload" =>
          \A i \in 1..Len(last.log) :
              last.log[i].act \in {"get", "section", "children"} => last.log[i].res = "ok"

ChildKeysAppended(parent) ==
    UNION {Range(ProviderChildKeys(providers[i], <<>>, parent)) : i \in 1..Len(providers)}

ChildrenParent == View(handles, last.h, last.sec).path

\* C8: children() of a root (parent: the empty path) and of a section
\* (parent: its path) returns one section per distinct child key that some
\* provider appends for that parent: none missing, none repeated.
C8_ChildrenAreSetUnion ==
    last.op = "children" =>
        /\ {SectionKey(last.secs[i]) : i \in 1..Len(last.secs)} =
               ChildKeysAppended(ChildrenParent)
        /\ Len(last.secs) = Cardinality(ChildKeysAppended(ChildrenParent))
        /\ \A i \in 1..Len(last.secs) :
              last.secs[i] = Combine(ChildrenParent, SectionKey(last.secs[i]))

\* children() returned two sections where two providers append the same key
\* and one of them another key
C8_Witness ==
    /\ last.op = "children" /\ Len(last.secs) = 2
    /\ \E i, j \in 1..Len(providers) :
          /\ i # j
          /\ Range(ProviderChildKeys(providers[i], <<>>, ChildrenParent))
                \cap Range(ProviderChildKeys(providers[j], <<>>, ChildrenParent)) # {}
          /\ Range(ProviderChildKeys(providers[i], <<>>, ChildrenParent))
                # Range(ProviderChildKeys(providers[j], <<>>, ChildrenParent))

\* C9: no two sections returned by children() have keys that differ only in
\* letter case.
C9_ChildrenDedupIgnoresCase ==
    last.op = "children" =>
        \A i, j \in 1..Len(last.secs) :
            LowerStr(SectionKey(last.secs[i])) = LowerStr(SectionKey(last.secs[j])) => i = j

\* C10: the count carried by Borrowed is the number of live iterators and
\* items borrowing the provider list.
C10_BorrowedCountsBorrowers ==
    (last.op = "reload" /\ last.res = "borrowed") => last.n = refs

\* the indexes an iterator has yielded neither from the front nor from the back
NotYetYielded(it) == {k \in 0..(Len(providers) - 1) : it.head <= k /\ k < it.tail}

\* the number of items an iterator has yielded from both ends
YieldCount(it) == it.head + (Len(providers) - it.tail)

\* C11: len() on a providers() iterator, after any mix of next() and
\* next_back(), is the number of providers not yet yielded.
C11_LenIsRemaining ==
    last.op = "len" => last.val = Cardinality(NotYetYielded(iters[last.it]))

\* C18: the two cursors of a providers() iterator never cross, so it never
\* yields more items than there are providers: once every provider has been
\* yielded, next() and next_back() yield nothing.
C18_CursorsNeverCross ==
    \A i \in 1..MaxIters :
        iters[i].alive =>
            /\ iters[i].head <= iters[i].tail
            /\ YieldCount(iters[i]) <= Len(providers)

\* C12: new() calls load() once on every provider in registration order
\* whatever the earlier loads returned; it returns a root, whose providers
\* hold in that order the data they loaded, iff every load() succeeded, and
\* otherwise Provider with one (name, error) pair per failing provider in
\* registration order and no root, token or handle exists.
C12_NewLoadsAllRootIffNoError ==
    /\ last.op = "new" =>
        /\ last.order = [i \in 1..Len(providers) |-> i]
        /\ \A i \in 1..Len(providers) : providers[i].loads = 1
        /\ (last.res = "ok") = (\A i \in 1..Len(providers) : last.outcomes[i].ok)
        /\ (last.res = "ok") = Constructed
        /\ last.res = "ok" =>
              \A i \in 1..Len(providers) : providers[i].data = last.outcomes[i].data
        /\ last.res # "ok" =>
              /\ last.res = "provider"
              /\ Len(last.errors) = Cardinality({i \in 1..Len(providers) : ~last.outcomes[i].ok})
              /\ \A j \in 1..Len(last.errors) :
                    /\ ~last.outcomes[last.errors[j][1]].ok
                    /\ \A k \in 1..(j - 1) : last.errors[k][1] < last.errors[j][1]
    /\ ~Constructed => tokens = <<>> /\ \A h \in Handles : handles[h] = NoHandle

\* new() went on to load the second provider after the first failed, and
\* returned Provider without creating a root
C12_Witness ==
    /\ last.op = "new" /\ last.res = "provider"
    /\ ~last.outcomes[1].ok /\ last.outcomes[2].ok
    /\ providers[2].data = last.outcomes[2].data
    /\ ~Constructed

\* C13: a section is a path prefix over its root: section(k1).get(k2) is
\* what the root answers for combine(k1, k2); section(k1).section(k2) has
\* path combine(k1, k2), an empty operand leaving the other unchanged; and
\* section(p).value() is the root's value for p, or the default (empty)
\* value when no provider defines p.
C13_SectionIsPathView ==
    /\ (last.op = "get" /\ last.sec # NoSection) =>
          last.val = Expected(Combine(last.sec, last.key))
    /\ last.op = "path" =>
          /\ last.val = Combine(last.sec, last.key)
          /\ last.sec = <<>> => last.val = last.key
          /\ last.key = <<>> => last.val = last.sec
          /\ (last.sec # <<>> /\ last.key # <<>>) =>
                last.val = last.sec \o <<Sep>> \o last.key
    /\ last.op = "value" =>
          last.val = (IF Definers(last.sec) = {} THEN DefaultValue
                      ELSE Expected(last.sec))

\* section("x").get("y") found the value of "x:y" where the root has no "y"
C13_Witness ==
    /\ last.op = "get" /\ last.sec = Px /\ last.key = Py
    /\ last.val # None
    /\ Expected(Py) = None

\* C14: once a root is constructed, the composite token its handle holds is
\* the newest one and is built from exactly one reload token per provider,
\* in registration order, each the token the provider had after its load()
\* in the latest pass (construction or a reload() that obtained exclusive
\* access), whether or not that load() succeeded; a reload() that returns
\* Borrowed leaves the handle with the token it had, unfired.
C14_TokenHasOneChildPerProvider ==
    /\ Constructed =>
          LET current == tokens[handles[1].tok]
          IN /\ handles[1].tok = Len(tokens)
             /\ Len(current.children) = Len(providers)
             /\ \A i \in 1..Len(providers) :
                   /\ current.children[i] = <<ProviderName(i), providers[i].loads>>
                   /\ providers[i].loads = Len(tokens)
    /\ (last.op = "reload" /\ last.res = "borrowed") =>
          /\ handles[last.h].tok = last.old
          /\ ~tokens[last.old].fired

\* a reload() whose first load() failed published a token that carries the
\* token of every provider, taken after the second load of each
C14_Witness ==
    /\ last.op = "reload" /\ last.res = "provider"
    /\ ~last.outcomes[1].ok
    /\ tokens[handles[1].tok].children =
          [i \in 1..Len(providers) |-> <<ProviderName(i), 2>>]

\* C15: no exclusive borrow of the provider list outlives a reload() call:
\* when reload() has returned Ok or Provider the list is neither mutably nor
\* immutably borrowed, so get(), children() and providers() can borrow it
\* and a reload() called next obtains exclusive access instead of returning
\* Borrowed.
C15_ReloadReleasesExclusiveAccess ==
    /\ ~exclusive
    /\ (last.op = "reload" /\ last.res \in {"ok", "provider"}) =>
          /\ BorrowOk(exclusive)
          /\ refs = 0
          /\ TryBorrowMut(refs, exclusive)

\* a second reload() obtained exclusive access and returned Provider, with
\* nothing borrowing the list afterwards
C15_Witness ==
    /\ last.op = "reload" /\ last.res = "provider"
    /\ Len(tokens) = 3
    /\ refs = 0 /\ ~exclusive

\* the objects holding a shared borrow of the provider list
LiveBorrowers == Cardinality({i \in 1..MaxIters : iters[i].alive}) + items

\* C16: a reload() returns Borrowed exactly when, at the call, a providers()
\* iterator or an item yielded by one is alive; the shared borrows of the
\* list are exactly those iterators and items, so root clones and sections
\* hold none, a completed get() leaves none, and an item keeps its borrow
\* after its iterator is dropped.
C16_BorrowedIffIteratorOrItemAlive ==
    /\ refs = LiveBorrowers
    /\ last.op = "reload" => ((last.res = "borrowed") = (LiveBorrowers > 0))

\* a reload() through a root that has a clone or a section returned Borrowed
\* with no iterator alive: an item outlived its iterator
C16_Witness ==
    /\ last.op = "reload" /\ last.res = "borrowed"
    /\ \A i \in 1..MaxIters : ~iters[i].alive
    /\ items > 0
    /\ \E h \in Handles : h # last.h /\ handles[h].kind # "free"

\* C17: whatever reloads are made through a root and its clones, which
\* share the provider list, every callback registered on any token has run
\* at most once in total.
C17_CallbacksRunAtMostOnce ==
    \A t \in 1..Len(tokens) :
        \A i \in 1..Len(tokens[t].cbs) : tokens[t].cbs[i] <= 1

\* a reload() through a handle whose token another handle's reload() had
\* already fired: the callback of that token has run once and not in this
\* reload()
C17_Witness ==
    /\ last.op = "reload" /\ last.res \in {"ok", "provider"}
    /\ Len(tokens[last.old].cbs) >= 1
    /\ tokens[last.old].cbs[1] = 1
    /\ last.log = <<>>

\* C19: a reload() called by a callback while the outer reload() is firing
\* the old token returns Borrowed; it loads no provider and publishes no
\* token, so when the outer reload() is over every provider has been loaded
\* once per pass and one token exists per pass, the newest held by the
\* handle the outer reload() went through.
C19_ReentrantReloadIsBorrowed ==
    last.op = "reload" =>
        /\ \A i \in 1..Len(last.log) :
              last.log[i].act = "reload" => last.log[i].res = "borrowed"
        /\ (\E i \in 1..Len(last.log) : last.log[i].act = "reload") =>
              /\ \A j \in 1..Len(providers) : providers[j].loads = Len(tokens)
              /\ handles[last.h].tok = Len(tokens)
              /\ handles[last.h].tok > last.old
              /\ \A t \in (last.old + 1)..Len(tokens) : ~tokens[t].fired

\* the outer reload() returned after a callback's reload() met Borrowed
C19_Witness ==
    /\ last.op = "reload" /\ last.res \in {"ok", "provider"}
    /\ \E i \in 1..Len(last.log) :
          last.log[i] = [act |-> "reload", res |-> "borrowed"]
    /\ \A j \in 1..Len(providers) : providers[j].loads = Len(tokens)

====
